---------------------------- MODULE Spec2Model ----------------------------
(***************************************************************************)
(* Model of the keyword pipeline of keyword_report/keywords.py:            *)
(* _parse_and_rank (parse, case dedup, filter, intent dedup, city cap,     *)
(* backfill), _normalize_service_intent and check_ranking_for_keywords,    *)
(* driven the way web.py's event_stream drives them, together with the     *)
(* requests of the two fetches (generate_seed_keywords, _detect_location,  *)
(* the credential check and the outcomes of an exchange) and the report    *)
(* file the run writes; of the crawl loop of scraper.py's scrape_site with *)
(* _normalize_url, of _extract_domain, and of the events the stream emits. *)
(*                                                                         *)
(* Python str values are TLA+ strings; a character is a string of length   *)
(* one.  TLC evaluates Len, \o, Head, Tail and SubSeq on strings.          *)
(*                                                                         *)
(* The parameters of the operators are named apart from the state          *)
(* variables (cities for all_cities, ind for industry, svcs for services,  *)
(* loc for location, areas for service_area_cities, unique for             *)
(* unique_keywords, ranked for ranked_keywords, items for the response's   *)
(* items): TLC computes a constant definition once only if no name in it   *)
(* is also the name of a variable.                                         *)
(***************************************************************************)
EXTENDS Integers, Sequences, FiniteSets, TLC

(***************************************************************************)
(* Python str primitives                                                   *)
(***************************************************************************)

UpperCase == "ABCDEFGHIJKLMNOPQRSTUVWXYZ"
LowerCase == "abcdefghijklmnopqrstuvwxyz"
Digits    == "0123456789"

\* The characters of the model's strings, in code point order (str comparison).
CodeOrder ==
  " &'-" \o Digits \o UpperCase \o "_" \o LowerCase

CharAt(s, i) == SubSeq(s, i, i)

CharsOf(s) == {CharAt(s, i) : i \in 1..Len(s)}

ToLower == [c \in CharsOf(UpperCase) |->
              CharAt(LowerCase, CHOOSE i \in 1..Len(UpperCase) : CharAt(UpperCase, i) = c)]
           @@ <<>>

Ord == [c \in CharsOf(CodeOrder) |->
          CHOOSE i \in 1..Len(CodeOrder) : CharAt(CodeOrder, i) = c]
       @@ <<>>

\* [a-zA-Z0-9_]: the characters between which the regex \b finds no boundary
WordChars == CharsOf(UpperCase) \cup CharsOf(LowerCase) \cup CharsOf(Digits) \cup {"_"}

\* str.lower()
RECURSIVE Lower(_)
Lower(s) ==
  IF s = "" THEN ""
  ELSE LET c == Head(s)
       IN  (IF c \in DOMAIN ToLower THEN ToLower[c] ELSE c) \o Lower(Tail(s))

\* s[i-1:].startswith(t), i counted from 1
StartsAt(s, t, i) ==
  /\ i + Len(t) - 1 <= Len(s)
  /\ SubSeq(s, i, i + Len(t) - 1) = t

\* `t in s` on two str values; the empty string is in every string
Contains(s, t) == \E i \in 1..(Len(s) - Len(t) + 1) : StartsAt(s, t, i)

\* s.replace(t, ""): every non-overlapping occurrence, left to right
RECURSIVE RemoveFrom(_, _, _)
RemoveFrom(s, t, i) ==
  IF i > Len(s) THEN ""
  ELSE IF t # "" /\ StartsAt(s, t, i) THEN RemoveFrom(s, t, i + Len(t))
  ELSE CharAt(s, i) \o RemoveFrom(s, t, i + 1)

Remove(s, t) == RemoveFrom(s, t, 1)

\* the regex \b at the gap before s[i] (i counted from 1, Len(s)+1 is the end)
Boundary(s, i) ==
  LET before == i > 1 /\ CharAt(s, i - 1) \in WordChars
      after  == i <= Len(s) /\ CharAt(s, i) \in WordChars
  IN  before # after

\* re.sub(r"\b[a-z]{2}\b$", "", s)
StripTrailingState(s) ==
  LET n == Len(s)
  IN  IF /\ n >= 2
         /\ CharAt(s, n - 1) \in CharsOf(LowerCase)
         /\ CharAt(s, n) \in CharsOf(LowerCase)
         /\ Boundary(s, n - 1)
      THEN SubSeq(s, 1, n - 2)
      ELSE s

\* re.sub(r"\bw\b", "", s) for a literal word w: the matches are found in s itself
RECURSIVE RemoveWordFrom(_, _, _)
RemoveWordFrom(s, w, i) ==
  IF i > Len(s) THEN ""
  ELSE IF StartsAt(s, w, i) /\ Boundary(s, i) /\ Boundary(s, i + Len(w))
       THEN RemoveWordFrom(s, w, i + Len(w))
  ELSE CharAt(s, i) \o RemoveWordFrom(s, w, i + 1)

RemoveWord(s, w) == RemoveWordFrom(s, w, 1)

\* str.split(): the maximal runs of non-blank characters
RECURSIVE SplitFrom(_, _, _)
SplitFrom(s, i, word) ==
  IF i > Len(s) THEN (IF word = "" THEN <<>> ELSE <<word>>)
  ELSE IF CharAt(s, i) = " "
       THEN (IF word = "" THEN <<>> ELSE <<word>>) \o SplitFrom(s, i + 1, "")
  ELSE SplitFrom(s, i + 1, word \o CharAt(s, i))

Split(s) == SplitFrom(s, 1, "")

\* a < b on two str values: code point order, a proper prefix first
RECURSIVE StrLess(_, _)
StrLess(a, b) ==
  IF b = "" THEN FALSE
  ELSE IF a = "" THEN TRUE
  ELSE IF Head(a) = Head(b) THEN StrLess(Tail(a), Tail(b))
  ELSE Ord[Head(a)] < Ord[Head(b)]

\* sorted(words)
RECURSIVE InsertWord(_, _)
InsertWord(sortedWords, w) ==
  IF sortedWords = <<>> THEN <<w>>
  ELSE IF StrLess(w, Head(sortedWords)) THEN <<w>> \o sortedWords
  ELSE <<Head(sortedWords)>> \o InsertWord(Tail(sortedWords), w)

RECURSIVE SortWords(_)
SortWords(words) ==
  IF words = <<>> THEN <<>>
  ELSE InsertWord(SortWords(SubSeq(words, 1, Len(words) - 1)), words[Len(words)])

\* " ".join(words)
RECURSIVE Join(_)
Join(words) ==
  IF words = <<>> THEN ""
  ELSE IF Len(words) = 1 THEN words[1]
  ELSE words[1] \o " " \o Join(Tail(words))

(***************************************************************************)
(* _normalize_service_intent                                               *)
(***************************************************************************)

\* for city in known_cities: kw = kw.replace(city.lower(), "")
RECURSIVE RemoveCities(_, _)
RemoveCities(kw, known_cities) ==
  IF known_cities = <<>> THEN kw
  ELSE RemoveCities(Remove(kw, Lower(Head(known_cities))), Tail(known_cities))

_normalize_service_intent(keyword, known_cities) ==
  LET kw0 == RemoveCities(Lower(keyword), known_cities)
      kw1 == StripTrailingState(kw0)
      kw2 == RemoveWord(kw1, "co")
      kw3 == RemoveWord(kw2, "in")
  IN  Join(SortWords(Split(kw3)))

(***************************************************************************)
(* Static tables                                                           *)
(***************************************************************************)

INDUSTRY_SEEDS ==
  [plumbing |-> <<
      "plumber", "plumbing services", "drain cleaning",
      "water heater repair", "leak repair", "emergency plumber",
      "pipe repair", "sewer repair", "toilet repair"
    >>,
   hvac |-> <<
      "hvac repair", "air conditioning repair", "ac repair",
      "furnace repair", "heating repair", "ac installation",
      "hvac company", "heat pump installation", "duct cleaning"
    >>,
   roofing |-> <<
      "roofing contractor", "roof repair", "roofer", "roof replacement",
      "roof inspection", "roof leak repair", "shingle repair",
      "metal roofing", "emergency roof repair"
    >>,
   electrical |-> <<
      "electrician", "electrical contractor", "electrical repair",
      "outlet installation", "lighting installation", "panel upgrade",
      "emergency electrician", "wiring repair"
    >>,
   painting |-> <<
      "painter", "house painter", "painting contractor",
      "interior painting", "exterior painting", "house painting",
      "residential painter", "commercial painter", "cabinet painting",
      "deck staining"
    >>,
   landscaping |-> <<
      "landscaping company", "landscaper", "lawn care service",
      "tree trimming", "tree removal", "landscape design",
      "lawn mowing service", "irrigation installation"
    >>,
   cleaning |-> <<
      "house cleaning service", "cleaning service", "maid service",
      "deep cleaning", "office cleaning", "commercial cleaning",
      "carpet cleaning", "move out cleaning"
    >>,
   pest_control |-> <<
      "pest control", "exterminator", "termite treatment",
      "bed bug treatment", "rodent control", "ant exterminator",
      "mosquito control", "wildlife removal"
    >>]

BRAND_BLOCKLIST == <<
  "benjamin moore", "sherwin williams", "sherwin-williams", "behr",
  "valspar", "ppg", "dulux", "farrow", "rust-oleum", "rustoleum",
  "home depot", "lowes", "lowe's", "menards", "ace hardware", "angi",
  "angie", "thumbtack", "yelp", "houzz", "nextdoor", "trane", "carrier",
  "lennox", "goodman", "rheem", "daikin", "kohler", "moen", "delta faucet",
  "scotts", "trugreen", "john deere", "orkin", "terminix", "rentokil"
>>

\* the literal set that _is_service_relevant starts from
service_signals == {
  "service", "services", "contractor", "company", "repair",
  "install", "installation", "removal", "maintenance",
  "cost", "price", "quote", "estimate", "emergency",
  "residential", "commercial", "licensed", "professional",
  "near me", "in my area"
}

\* the target count of the final list and the per-city cap of the capped pass
TargetCount == 10
max_per_city == 3

(***************************************************************************)
(* City list and candidate filter                                          *)
(***************************************************************************)

ToSet(seq) == {seq[i] : i \in 1..Len(seq)}

\* str.strip() on blanks
RECURSIVE Strip(_)
Strip(s) ==
  IF s = "" THEN ""
  ELSE IF Head(s) = " " THEN Strip(Tail(s))
  ELSE IF CharAt(s, Len(s)) = " " THEN Strip(SubSeq(s, 1, Len(s) - 1))
  ELSE s

\* s.split(",")[0]
RECURSIVE BeforeComma(_)
BeforeComma(s) ==
  IF s = "" \/ Head(s) = "," THEN ""
  ELSE Head(s) \o BeforeComma(Tail(s))

_extract_city(loc) == Strip(BeforeComma(loc))

\* the extend of build_city_list: its generator tests membership in the list
\* that is being extended
RECURSIVE ExtendCities(_, _)
ExtendCities(cities, areas) ==
  IF areas = <<>> THEN cities
  ELSE LET c == Head(areas)
       IN  ExtendCities(IF c \in ToSet(cities) THEN cities
                        ELSE Append(cities, c),
                        Tail(areas))

build_city_list(loc, areas) ==
  ExtendCities(<<_extract_city(loc)>>, areas)

_is_blocked_brand(keyword) ==
  LET kw_lower == Lower(keyword)
  IN  \E i \in 1..Len(BRAND_BLOCKLIST) : Contains(kw_lower, BRAND_BLOCKLIST[i])

\* str.replace(" ", "_")
RECURSIVE Underscored(_)
Underscored(s) ==
  IF s = "" THEN ""
  ELSE (IF Head(s) = " " THEN "_" ELSE Head(s)) \o Underscored(Tail(s))

\* the words that _is_service_relevant adds to service_signals
IndustryWords(ind) ==
  LET industry_key == Underscored(Lower(ind))
  IN  IF industry_key \in DOMAIN INDUSTRY_SEEDS
      THEN UNION {{word \in ToSet(Split(Lower(seed))) :
                     Len(word) > 2 /\ word \notin {"the", "and", "for", "near"}} :
                  seed \in ToSet(INDUSTRY_SEEDS[industry_key])}
      ELSE {}

ServiceWords(svcs) ==
  UNION {{word \in ToSet(Split(Lower(svc))) : Len(word) > 2} : svc \in ToSet(svcs)}

_is_service_relevant(keyword, ind, svcs) ==
  LET kw_lower == Lower(keyword)
      signals  == service_signals \cup IndustryWords(ind) \cup ServiceWords(svcs)
  IN  \E term \in signals : Contains(kw_lower, term)

\* any(city.lower() in kw for city in the city list)
HasCity(kw, cities) ==
  \E i \in 1..Len(cities) : Contains(kw, Lower(cities[i]))

\* the first city of the list found in kw, lowercased; "" stands for None
\* as well (the code tests `if kw_city:`, false for both)
RECURSIVE KwCity(_, _)
KwCity(kw, cities) ==
  IF cities = <<>> THEN ""
  ELSE IF Contains(kw, Lower(Head(cities))) THEN Lower(Head(cities))
  ELSE KwCity(kw, Tail(cities))

(***************************************************************************)
(* generate_seed_keywords                                                  *)
(***************************************************************************)

\* the cities to target: the primary city, then the service-area cities
\* that differ from it case-insensitively and are not yet listed
RECURSIVE SeedCities(_, _, _)
SeedCities(targets, primary_city, areas) ==
  IF areas = <<>> THEN targets
  ELSE LET c == Head(areas)
       IN  SeedCities(IF Lower(c) # Lower(primary_city) /\ c \notin ToSet(targets)
                      THEN Append(targets, c) ELSE targets,
                      primary_city, Tail(areas))

\* service_terms extended with the services not yet in it, case-insensitively
RECURSIVE ExtendTerms(_, _)
ExtendTerms(service_terms, svcs) ==
  IF svcs = <<>> THEN service_terms
  ELSE LET svc == Head(svcs)
       IN  ExtendTerms(IF Lower(svc) \notin {Lower(t) : t \in ToSet(service_terms)}
                       THEN Append(service_terms, svc) ELSE service_terms,
                       Tail(svcs))

ServiceTerms(ind, svcs) ==
  LET industry_lower == Lower(ind)
      industry_key   == Underscored(industry_lower)
  IN  ExtendTerms(<<industry_lower>> \o
                    (IF industry_key \in DOMAIN INDUSTRY_SEEDS
                     THEN INDUSTRY_SEEDS[industry_key] ELSE <<>>),
                  svcs)

\* the round-robin pairing: term i (from 0) goes with city i % len(cities)
PairTerms(service_terms, targets) ==
  [j \in 1..Len(service_terms) |->
     service_terms[j] \o " " \o targets[((j - 1) % Len(targets)) + 1]]

\* keywords.insert(0, primary_seed) unless it is there case-insensitively
WithPrimarySeed(paired, primary_seed) ==
  IF Lower(primary_seed) \notin {Lower(q) : q \in ToSet(paired)}
  THEN <<primary_seed>> \o paired ELSE paired

\* the keywords of generate_seed_keywords before the dedup
SeedCandidates(ind, loc, svcs, areas) ==
  LET primary_city == _extract_city(loc)
      targets      == SeedCities(<<primary_city>>, primary_city, areas)
  IN  WithPrimarySeed(PairTerms(ServiceTerms(ind, svcs), targets),
                      Lower(ind) \o " " \o primary_city)

\* the dedup with nothing ever seen
SeenNever(lowered, seen) == FALSE

\* `lower not in seen`
SeenBefore(lowered, seen) == lowered \in seen

\* the dedup loop: first-seen order, case-insensitive
RECURSIVE SeedDedupFrom(_, _)
SeedDedupFrom(paired, seen) ==
  IF paired = <<>> THEN <<>>
  ELSE LET lowered == Lower(Head(paired))
       IN  IF SeenBefore(lowered, seen) THEN SeedDedupFrom(Tail(paired), seen)
           ELSE <<Head(paired)>> \o SeedDedupFrom(Tail(paired), seen \cup {lowered})

\* the slice [:20] of generate_seed_keywords and of the payload
MaxSeeds == 20

FirstSeeds(seeds) == SubSeq(seeds, 1, IF Len(seeds) < MaxSeeds THEN Len(seeds) ELSE MaxSeeds)

generate_seed_keywords(ind, loc, svcs, areas) ==
  FirstSeeds(SeedDedupFrom(SeedCandidates(ind, loc, svcs, areas), {}))

(***************************************************************************)
(* _detect_location                                                        *)
(***************************************************************************)

\* intl_mappings, in the order of the dict
intl_mappings == <<
  <<"australia", "Australia">>, <<"sydney", "Australia">>, <<"melbourne", "Australia">>,
  <<"brisbane", "Australia">>, <<"perth", "Australia">>, <<"adelaide", "Australia">>,
  <<"uk", "United Kingdom">>, <<"united kingdom", "United Kingdom">>, <<"london", "United Kingdom">>,
  <<"england", "United Kingdom">>, <<"canada", "Canada">>, <<"toronto", "Canada">>,
  <<"vancouver", "Canada">>, <<"new zealand", "New Zealand">>, <<"auckland", "New Zealand">> >>

us_states == <<
  <<"AL", "Alabama">>, <<"AK", "Alaska">>, <<"AZ", "Arizona">>, <<"AR", "Arkansas">>,
  <<"CA", "California">>, <<"CO", "Colorado">>, <<"CT", "Connecticut">>, <<"DE", "Delaware">>,
  <<"FL", "Florida">>, <<"GA", "Georgia">>, <<"HI", "Hawaii">>, <<"ID", "Idaho">>,
  <<"IL", "Illinois">>, <<"IN", "Indiana">>, <<"IA", "Iowa">>, <<"KS", "Kansas">>,
  <<"KY", "Kentucky">>, <<"LA", "Louisiana">>, <<"ME", "Maine">>, <<"MD", "Maryland">>,
  <<"MA", "Massachusetts">>, <<"MI", "Michigan">>, <<"MN", "Minnesota">>, <<"MS", "Mississippi">>,
  <<"MO", "Missouri">>, <<"MT", "Montana">>, <<"NE", "Nebraska">>, <<"NV", "Nevada">>,
  <<"NH", "New Hampshire">>, <<"NJ", "New Jersey">>, <<"NM", "New Mexico">>, <<"NY", "New York">>,
  <<"NC", "North Carolina">>, <<"ND", "North Dakota">>, <<"OH", "Ohio">>, <<"OK", "Oklahoma">>,
  <<"OR", "Oregon">>, <<"PA", "Pennsylvania">>, <<"RI", "Rhode Island">>, <<"SC", "South Carolina">>,
  <<"SD", "South Dakota">>, <<"TN", "Tennessee">>, <<"TX", "Texas">>, <<"UT", "Utah">>,
  <<"VT", "Vermont">>, <<"VA", "Virginia">>, <<"WA", "Washington">>, <<"WV", "West Virginia">>,
  <<"WI", "Wisconsin">>, <<"WY", "Wyoming">> >>

\* the country of the first key of intl_mappings found in the lowercased
\* location; "" if there is none
RECURSIVE IntlCountry(_, _)
IntlCountry(location_lower, j) ==
  IF j > Len(intl_mappings) THEN ""
  ELSE IF Contains(location_lower, intl_mappings[j][1]) THEN intl_mappings[j][2]
  ELSE IntlCountry(location_lower, j + 1)

\* the end of the blanks that start at position j
RECURSIVE SkipBlanks(_, _)
SkipBlanks(s, j) ==
  IF j <= Len(s) /\ CharAt(s, j) = " " THEN SkipBlanks(s, j + 1) ELSE j

\* the group of r",\s*([A-Z]{2})\b" matched from the comma at position j;
\* "" if the pattern does not match there
AbbrevAt(s, j) ==
  IF CharAt(s, j) # "," THEN ""
  ELSE LET m == SkipBlanks(s, j + 1)
       IN  IF /\ m + 1 <= Len(s)
              /\ CharAt(s, m) \in CharsOf(UpperCase)
              /\ CharAt(s, m + 1) \in CharsOf(UpperCase)
              /\ (m + 2 > Len(s) \/ CharAt(s, m + 2) \notin WordChars)
           THEN SubSeq(s, m, m + 1) ELSE ""

\* re.search: the group of the leftmost match; "" if there is no match
RECURSIVE FirstAbbrev(_, _)
FirstAbbrev(s, j) ==
  IF j > Len(s) THEN ""
  ELSE IF AbbrevAt(s, j) # "" THEN AbbrevAt(s, j)
  ELSE FirstAbbrev(s, j + 1)

\* us_states[abbrev]; "" if abbrev is not a key
RECURSIVE StateName(_, _)
StateName(abbrev, j) ==
  IF j > Len(us_states) THEN ""
  ELSE IF us_states[j][1] = abbrev THEN us_states[j][2]
  ELSE StateName(abbrev, j + 1)

_detect_location(loc) ==
  LET country == IntlCountry(Lower(loc), 1)
      abbrev  == FirstAbbrev(loc, 1)
  IN  IF country # "" THEN country
      ELSE IF abbrev # "" /\ StateName(abbrev, 1) # ""
           THEN StateName(abbrev, 1) \o ",United States"
      ELSE "United States"

(***************************************************************************)
(* Inputs of a run                                                         *)
(***************************************************************************)

Item(kw, vol) == [keyword |-> kw, search_volume |-> vol]

\* What the discovery service may return, in its order.  A search_volume of
\* 0 also stands for an absent or null one.
FullPool == <<
  Item("Plumber Denver", 900),
  Item("PLUMBER DENVER", 100),
  Item("home depot plumber denver", 950),
  Item("emergency plumber denver", 800),
  Item("denver broncos tickets", 990),
  Item("drain cleaning Denver", 700),
  Item("emergency plumber", 980),
  Item("water heater repair denver", 600),
  Item("roto plumber aurora", 650),
  Item("leak repair aurora", 500),
  Item("pipe repair aurora", 450),
  Item("toilet repair golden", 0),
  Item("sewer repair boulder", 400),
  Item("toilet repair boulder", 350),
  Item("plumbing services golden", 300),
  Item("rv plumber aurora", 250),
  Item("denver plumber", 900),
  Item("gas line repair golden", 200),
  Item("plumber aurora", 950),
  Item("sump pump repair boulder", 150),
  Item("", 120)
>>

\* the number of pool items a discovery response is drawn from, and how many
\* of them it may leave out
PoolSize == 19
MaxSkip == 1

RECURSIVE SkipSets(_, _)
SkipSets(n, k) ==
  IF k = 0 THEN {{}}
  ELSE LET smaller == SkipSets(n, k - 1)
       IN  smaller \cup {D \cup {a} : D \in smaller, a \in 1..n}

RECURSIVE Without(_, _, _)
Without(n, D, i) ==
  IF i > n THEN <<>>
  ELSE (IF i \in D THEN <<>> ELSE <<FullPool[i]>>) \o Without(n, D, i + 1)

\* the first n pool items without up to MaxSkip of them
Responses ==
  UNION {{Without(n, D, 1) : D \in SkipSets(n, MaxSkip)} : n \in 0..PoolSize}

Industries == {"Plumbing"}
ServiceLists == {<<"Gas Line Repair">>}
Locations == {"Denver, CO", ""}
ServiceAreas == {<<"Aurora">>, <<"Aurora", "Denver", "Boulder", "Golden">>}

\* keywords the ranked-keyword service may report for the domain
RankedPool == <<"Denver Plumbers", "Emergency Plumber Aurora",
                "drain cleaning denver", "roof repair denver", "">>

\* the longest ranked list
MaxRanked == 2

RECURSIVE RankedLists(_)
RankedLists(n) ==
  IF n = 0 THEN {<<>>}
  ELSE LET shorter == RankedLists(n - 1)
       IN  shorter \cup {Append(r, RankedPool[i]) : r \in shorter, i \in 1..Len(RankedPool)}

(***************************************************************************)
(* Tabulation.  The string functions are evaluated once over the strings   *)
(* and city lists the inputs above can produce; any other argument is      *)
(* computed directly.  Tabulated(f) is f with its values computed: TLC     *)
(* builds the function @@ returns, and does so once for a constant.        *)
(***************************************************************************)

Tabulated(f) == f @@ <<>>

PoolStrings ==
  {FullPool[i].keyword : i \in 1..Len(FullPool)} \cup ToSet(RankedPool)

KnownStrings == PoolStrings \cup {Lower(k) : k \in PoolStrings}

CityLists == {build_city_list(l, a) : l \in Locations, a \in ServiceAreas}

LowerTable == Tabulated([k \in KnownStrings |-> Lower(k)])

BlockedTable == Tabulated([k \in KnownStrings |-> _is_blocked_brand(k)])

RelevantTable ==
  Tabulated([k \in KnownStrings, i \in Industries, s \in ServiceLists |->
               _is_service_relevant(k, i, s)])

HasCityTable == Tabulated([k \in KnownStrings, c \in CityLists |-> HasCity(k, c)])

KwCityTable == Tabulated([k \in KnownStrings, c \in CityLists |-> KwCity(k, c)])

IntentTable ==
  Tabulated([k \in KnownStrings, c \in CityLists |->
               _normalize_service_intent(k, c)])

CachedLower(k) == IF k \in KnownStrings THEN LowerTable[k] ELSE Lower(k)

CachedBlocked(k) == IF k \in KnownStrings THEN BlockedTable[k] ELSE _is_blocked_brand(k)

CachedRelevant(k, i, s) ==
  IF k \in KnownStrings /\ i \in Industries /\ s \in ServiceLists
  THEN RelevantTable[k, i, s] ELSE _is_service_relevant(k, i, s)

CachedHasCity(k, c) ==
  IF k \in KnownStrings /\ c \in CityLists THEN HasCityTable[k, c] ELSE HasCity(k, c)

CachedKwCity(k, c) ==
  IF k \in KnownStrings /\ c \in CityLists THEN KwCityTable[k, c] ELSE KwCity(k, c)

CachedIntent(k, c) ==
  IF k \in KnownStrings /\ c \in CityLists
  THEN IntentTable[k, c] ELSE _normalize_service_intent(k, c)

(***************************************************************************)
(* _parse_and_rank                                                         *)
(***************************************************************************)

Pair(kw, vol) == [keyword |-> kw, monthly_searches |-> vol]

\* Step 1: items with a keyword and a volume above 0, lowercased
RECURSIVE ParseItems(_)
ParseItems(items) ==
  IF items = <<>> THEN <<>>
  ELSE LET item == Head(items)
       IN  (IF item.keyword # "" /\ item.search_volume > 0
            THEN <<Pair(CachedLower(item.keyword), item.search_volume)>>
            ELSE <<>>) \o ParseItems(Tail(items))

\* Step 2: the first occurrence of each string
RECURSIVE CaseDedupFrom(_, _)
CaseDedupFrom(raw, seen_exact) ==
  IF raw = <<>> THEN <<>>
  ELSE IF Head(raw).keyword \in seen_exact THEN CaseDedupFrom(Tail(raw), seen_exact)
  ELSE <<Head(raw)>> \o CaseDedupFrom(Tail(raw), seen_exact \cup {Head(raw).keyword})

\* CaseDedup with every occurrence kept
CaseDedupNone(raw) == raw

CaseDedup(raw) == CaseDedupFrom(raw, {})

\* Step 3: brands, relevance, city
PassesFilter(kw, ind, svcs, cities) ==
  /\ ~CachedBlocked(kw)
  /\ CachedRelevant(kw, ind, svcs)
  /\ CachedHasCity(kw, cities)

RECURSIVE FilterCandidates(_, _, _, _)
FilterCandidates(deduped, ind, svcs, cities) ==
  IF deduped = <<>> THEN <<>>
  ELSE (IF PassesFilter(Head(deduped).keyword, ind, svcs, cities)
        THEN <<Head(deduped)>> ELSE <<>>)
       \o FilterCandidates(Tail(deduped), ind, svcs, cities)

\* IntentIndex with the lookup lost: every candidate is taken for a new intent
IntentIndexNone(intent_best, intent) == 0

\* Step 4: intent_best, a dict: the entries in the order their keys were first
\* inserted; assigning to an existing key keeps its place
IntentIndex(intent_best, intent) ==
  IF \E i \in 1..Len(intent_best) : intent_best[i].intent = intent
  THEN CHOOSE i \in 1..Len(intent_best) : intent_best[i].intent = intent
  ELSE 0

\* Replaces with `>=` for `>`: the last of equal volumes is kept
ReplacesOrEqual(vol, best_vol) == vol >= best_vol

\* intent not in intent_best or vol > intent_best[intent][1]
Replaces(vol, best_vol) == vol > best_vol

RECURSIVE IntentDedupFrom(_, _, _)
IntentDedupFrom(filtered, cities, intent_best) ==
  IF filtered = <<>> THEN intent_best
  ELSE LET c      == Head(filtered)
           intent == CachedIntent(c.keyword, cities)
           i      == IntentIndex(intent_best, intent)
           entry  == [intent |-> intent, pair |-> c]
       IN  IntentDedupFrom(Tail(filtered), cities,
             IF i = 0 THEN Append(intent_best, entry)
             ELSE IF Replaces(c.monthly_searches, intent_best[i].pair.monthly_searches)
                  THEN [intent_best EXCEPT ![i] = entry]
             ELSE intent_best)

IntentDedup(filtered, cities) ==
  LET intent_best == IntentDedupFrom(filtered, cities, <<>>)
  IN  [i \in 1..Len(intent_best) |-> intent_best[i].pair]

\* SortByVolume with the sort left out
SortByVolumeNone(pairs) == pairs

\* list.sort(key=volume, reverse=True): stable, equal volumes keep their order
RECURSIVE InsertByVolume(_, _)
InsertByVolume(sortedPairs, p) ==
  IF sortedPairs = <<>> THEN <<p>>
  ELSE IF Head(sortedPairs).monthly_searches < p.monthly_searches
       THEN <<p>> \o sortedPairs
  ELSE <<Head(sortedPairs)>> \o InsertByVolume(Tail(sortedPairs), p)

RECURSIVE SortByVolume(_)
SortByVolume(pairs) ==
  IF pairs = <<>> THEN <<>>
  ELSE InsertByVolume(SortByVolume(SubSeq(pairs, 1, Len(pairs) - 1)), pairs[Len(pairs)])

CityCount(city_count, city) ==
  IF city \in DOMAIN city_count THEN city_count[city] ELSE 0

\* AtCap off by one: count > max_per_city
AtCapLate(count) == count > max_per_city

\* count >= max_per_city: the candidate is skipped
AtCap(count) == count >= max_per_city

\* Step 5, first loop
RECURSIVE CappedFrom(_, _, _, _)
CappedFrom(unique, cities, final, city_count) ==
  IF unique = <<>> \/ Len(final) >= TargetCount THEN final
  ELSE LET p       == Head(unique)
           kw_city == CachedKwCity(p.keyword, cities)
           count   == CityCount(city_count, kw_city)
       IN  IF kw_city # "" /\ AtCap(count)
           THEN CappedFrom(Tail(unique), cities, final, city_count)
           ELSE CappedFrom(Tail(unique), cities, Append(final, p),
                  IF kw_city # ""
                  THEN [c \in DOMAIN city_count \cup {kw_city} |->
                          IF c = kw_city THEN count + 1 ELSE city_count[c]]
                  ELSE city_count)

CappedPass(unique, cities) ==
  CappedFrom(unique, cities, <<>>, <<>>)

\* Step 5, second loop: entered only when len(final) < 10; `used` is fixed
\* before the loop
RECURSIVE BackfillFrom(_, _, _)
BackfillFrom(unique, final, used) ==
  IF unique = <<>> \/ Len(final) >= TargetCount THEN final
  ELSE BackfillFrom(Tail(unique),
         IF Head(unique).keyword \notin used
         THEN Append(final, Head(unique)) ELSE final,
         used)

\* Backfill without the `kw not in used` test
BackfillNoUsed(unique, final) ==
  IF Len(final) < TargetCount THEN BackfillFrom(unique, final, {}) ELSE final

\* Backfill left out: the capped pass's list is returned as it is
BackfillNever(unique, final) == final

Backfill(unique, final) ==
  IF Len(final) < TargetCount
  THEN BackfillFrom(unique, final, {final[i].keyword : i \in 1..Len(final)})
  ELSE final

UniqueKeywords(items, ind, svcs, cities) ==
  SortByVolume(IntentDedup(
    FilterCandidates(CaseDedup(ParseItems(items)), ind, svcs, cities),
    cities))

_parse_and_rank(items, ind, svcs, cities) ==
  LET unique == UniqueKeywords(items, ind, svcs, cities)
  IN  Backfill(unique, CappedPass(unique, cities))

(***************************************************************************)
(* check_ranking_for_keywords                                              *)
(***************************************************************************)

\* the set ranked_raw
RECURSIVE RankedRaw(_)
RankedRaw(ranked) ==
  IF ranked = <<>> THEN {}
  ELSE {CachedLower(Head(ranked))} \cup RankedRaw(Tail(ranked))

\* ranked_intents built from ranked[1:] only
RankedIntentsSkipFirst(ranked, cities) ==
  {CachedIntent(ranked[i], cities) : i \in 2..Len(ranked)}

\* the set ranked_intents
RECURSIVE RankedIntents(_, _)
RankedIntents(ranked, cities) ==
  IF ranked = <<>> THEN {}
  ELSE {CachedIntent(Head(ranked), cities)}
       \cup RankedIntents(Tail(ranked), cities)

\* OnOldSite with `==` for `or`
OnOldSiteEqual(intent_match, exact_match) == intent_match = exact_match

\* OnOldSite with `and` for `or`
OnOldSiteBoth(intent_match, exact_match) == intent_match /\ exact_match

\* kw_intent in ranked_intents or kw_lower in ranked_raw
OnOldSite(intent_match, exact_match) == intent_match \/ exact_match

check_ranking_for_keywords(opportunity_keywords, ranked, cities) ==
  LET ranked_raw     == RankedRaw(ranked)
      ranked_intents == RankedIntents(ranked, cities)
  IN  [i \in 1..Len(opportunity_keywords) |->
         LET kw        == opportunity_keywords[i]
             kw_lower  == CachedLower(kw.keyword)
             kw_intent == CachedIntent(kw.keyword, cities)
         IN  [keyword          |-> kw.keyword,
              monthly_searches |-> kw.monthly_searches,
              on_old_site      |-> OnOldSite(kw_intent \in ranked_intents,
                                             kw_lower \in ranked_raw)]]

\* _parse_ranked_keywords keeps the items that have a keyword
RECURSIVE _parse_ranked_keywords(_)
_parse_ranked_keywords(items) ==
  IF items = <<>> THEN <<>>
  ELSE (IF Head(items) # "" THEN <<Head(items)>> ELSE <<>>)
       \o _parse_ranked_keywords(Tail(items))

(***************************************************************************)
(* URLs: _extract_domain of keywords.py, urlparse and _normalize_url of    *)
(* scraper.py                                                              *)
(***************************************************************************)

\* s[n:]
Drop(s, n) == SubSeq(s, n + 1, Len(s))

\* the part of s before the first character that is in S; all of s if none is
RECURSIVE UpTo(_, _)
UpTo(s, S) ==
  IF s = "" THEN ""
  ELSE IF Head(s) \in S THEN ""
  ELSE Head(s) \o UpTo(Tail(s), S)

\* re.sub(r"^https?://", "", url), re.sub(r"^www\.", "", ...),
\* .split("/")[0].split("?")[0], .lower()
_extract_domain(u) ==
  LET a == IF StartsAt(u, "https://", 1) THEN Drop(u, 8)
           ELSE IF StartsAt(u, "http://", 1) THEN Drop(u, 7)
           ELSE u
      b == IF StartsAt(a, "www.", 1) THEN Drop(a, 4) ELSE a
  IN  Lower(UpTo(UpTo(b, {"/"}), {"?"}))

\* keywords.py 463: _extract_domain(domain) if "://" in domain else domain
BareDomain(u) == IF Contains(u, "://") THEN _extract_domain(u) ELSE u

\* scraper.py 61-62
WithScheme(u) ==
  IF StartsAt(u, "http://", 1) \/ StartsAt(u, "https://", 1) THEN u
  ELSE "https://" \o u

\* urlparse of a URL that has a scheme and "//": the scheme in lowercase,
\* the netloc up to the first of / ? #, the path up to the first of ? #, the
\* query up to #
UrlParse(u) ==
  LET a == UpTo(u, {":"})
      b == Drop(u, Len(a) + 3)
      c == UpTo(b, {"/", "?", "#"})
      r == Drop(b, Len(c))
      e == UpTo(r, {"?", "#"})
      q == Drop(r, Len(e))
  IN  [scheme |-> Lower(a), netloc |-> c, path |-> e,
       query  |-> IF q # "" /\ Head(q) = "?" THEN UpTo(Tail(q), {"#"}) ELSE ""]

\* path.rstrip("/")
RECURSIVE RStripSlash(_)
RStripSlash(s) ==
  IF s # "" /\ CharAt(s, Len(s)) = "/" THEN RStripSlash(SubSeq(s, 1, Len(s) - 1))
  ELSE s

_normalize_url(u) ==
  LET parsed == UrlParse(u)
  IN  parsed.scheme \o "://" \o parsed.netloc \o RStripSlash(parsed.path)
        \o (IF parsed.query # "" THEN "?" \o parsed.query ELSE "")

\* scraper.py 64-65: f"{parsed.scheme}://{parsed.netloc}"
BaseUrl(u) == LET parsed == UrlParse(u) IN parsed.scheme \o "://" \o parsed.netloc

(***************************************************************************)
(* The requests of the two fetches and their outcomes                      *)
(***************************************************************************)

\* the test with `and` for `or`
ConfigMissingBoth(lg, pw) == lg = "" /\ pw = ""

\* `not login or not password`; "" stands for an unset variable as well
ConfigMissing(lg, pw) == lg = "" \/ pw = ""

\* what the exchange with a service ends in
Outcomes == {"ok", "timeout", "http_error", "bad_json", "bad_payload"}

\* the exception an outcome raises: client.post, raise_for_status,
\* response.json and the parse of a payload of the wrong shape; "" for none
ExceptionOf(outcome) ==
  CASE outcome = "timeout"     -> "TimeoutException"
    [] outcome = "http_error"  -> "HTTPStatusError"
    [] outcome = "bad_json"    -> "JSONDecodeError"
    [] outcome = "bad_payload" -> "AttributeError"
    [] OTHER                   -> ""

\* the payload of get_keywords
DiscoveryPayload(ind, loc, svcs, areas) ==
  [keywords      |-> FirstSeeds(generate_seed_keywords(ind, loc, svcs, areas)),
   location_name |-> _detect_location(loc)]

\* the payload of get_ranked_keywords
RankedPayload(loc, u) ==
  [target |-> BareDomain(u), location_name |-> _detect_location(loc)]

\* `except Exception` with only the transport errors caught
CaughtTransportOnly(exc) == exc \in {"TimeoutException", "HTTPStatusError"}

\* `except Exception`
Caught(exc) == exc # ""

\* the try block of get_ranked_keywords: what it returns, or what it raises
RankedFetch(outcome, items) ==
  LET exc == ExceptionOf(outcome)
  IN  IF exc = "" THEN [error |-> "", value |-> _parse_ranked_keywords(items)]
      ELSE IF Caught(exc) THEN [error |-> "", value |-> <<>>]
      ELSE [error |-> exc, value |-> <<>>]

(***************************************************************************)
(* The report file                                                         *)
(***************************************************************************)

\* re.sub(r"[^a-z0-9]+", "", business_name.lower())
RECURSIVE KeepAlnum(_)
KeepAlnum(s) ==
  IF s = "" THEN ""
  ELSE (IF Head(s) \in CharsOf(LowerCase) \cup CharsOf(Digits) THEN Head(s) ELSE "")
       \o KeepAlnum(Tail(s))

Slug(name) == KeepAlnum(Lower(name))

\* REPORTS_DIR / f"{slug}_keyword_report.pdf"
ReportFile(name) == Slug(name) \o "_keyword_report.pdf"

\* the directory after a PDF is written to a path of it
WriteReport(dir, path, pdf) == [f \in DOMAIN dir \cup {path} |-> IF f = path THEN pdf ELSE dir[f]]

\* the PDF of a run: whose report it is and the keywords it shows
Pdf(name, results) == [business_name |-> name, keywords |-> results]

(***************************************************************************)
(* The sites and the request URLs the runs are checked over, and the URL   *)
(* operators tabulated over their strings                                  *)
(***************************************************************************)

\* the pages of a site and the links _discover_links finds on each
Sites ==
  {("https://ace.com" :> <<"https://ace.com/about/", "https://ace.com/services#top",
                           "https://ace.com/">>)
     @@ ("https://ace.com/about" :> <<"https://ace.com/", "https://ace.com/about#team",
                                      "https://ace.com/contact?x=1">>)
     @@ ("https://ace.com/services" :> <<"https://ace.com/about">>),
   ("https://ace.com" :> <<"https://ace.com/services", "https://ace.com/about",
                           "https://ace.com/contact", "https://ace.com/areas",
                           "https://ace.com/team", "https://ace.com/reviews">>)
     @@ ("https://ace.com/services" :> <<"https://ace.com/services/drains/",
                                         "https://ace.com">>)
     @@ ("https://ace.com/about" :> <<"https://ace.com/team">>),
   ("https://ace.com" :> <<"https://ace.com.evil.com/x", "https://ace.com/about">>)}

\* what the url parameter of a request can be
Urls ==
  {"https://www.aceplumbing.com/", "aceplumbing.com", "www.aceplumbing.com/about",
   "http://aceplumbing.com/about?x=1", "https://WWW.AcePlumbing.com/",
   "https://aceplumbing.com?x=1"}

\* every URL string of the sites and requests above, as given, with the scheme
\* scrape_site puts in front, and as _normalize_url leaves it
KnownUrls ==
  LET given == Urls \cup {"https://ace.com/", "ace.com"}
                 \cup UNION {UNION {{k} \cup ToSet(g[k]) : k \in DOMAIN g} : g \in Sites}
      schemed == {WithScheme(u) : u \in given}
  IN  given \cup schemed \cup {_normalize_url(u) : u \in schemed}

\* _normalize_url, the base URL and _extract_domain of every known URL
UrlTable ==
  Tabulated([u \in KnownUrls |->
               [normalized |-> _normalize_url(u), base |-> BaseUrl(u),
                host |-> _extract_domain(u)]])

CachedUrl(u) ==
  IF u \in KnownUrls THEN UrlTable[u]
  ELSE [normalized |-> _normalize_url(u), base |-> BaseUrl(u),
        host |-> _extract_domain(u)]

(***************************************************************************)
(* The crawl loop of scrape_site                                           *)
(***************************************************************************)

\* web.py 44: scrape_site(url, max_pages=5)
max_pages == 5

\* the loop test with `<=` for `<`
CrawlGoesOnLate(queue, pages) == queue # <<>> /\ Len(pages) <= max_pages

\* scraper.py 82: `while to_visit and len(scraped_pages) < max_pages`
CrawlGoesOn(queue, pages) == queue # <<>> /\ Len(pages) < max_pages

\* the queue with the popped entry left in it
RestKept(queue) == queue

\* scraper.py 83: what to_visit.pop(0) leaves
Rest(queue) == Tail(queue)

\* scraper.py 96-99: the links appended to the queue
RECURSIVE AddLinks(_, _, _, _)
AddLinks(queue, found, done, base) ==
  IF found = <<>> THEN queue
  ELSE LET norm == CachedUrl(Head(found)).normalized
       IN  AddLinks(IF norm \notin done /\ norm \notin ToSet(queue) /\ StartsAt(norm, base, 1)
                    THEN Append(queue, norm) ELSE queue,
                    Tail(found), done, base)

(***************************************************************************)
(* A report run (web.py, event_stream, with the crawl loop of scrape_site), *)
(* and the PDF step of another request that runs at the same time.  The    *)
(* profile variables hold from the start what the analysis will return.    *)
(***************************************************************************)

VARIABLES
  industry, services, location, service_area_cities, brand_blocklist,
  seed_keywords, relevance_terms, business_name,
  login, password,
  response, ranked_response, kw_outcome, rk_outcome,
  url, links, broken, scrape_outcome, analyze_outcome, pdf_outcome,
  base_url, to_visit, visited, scraped_pages, loaded,
  events, domain,
  pc, kw_done, rk_done, kw_error, rk_error, kw_request, rk_request,
  all_cities, unique_keywords, capped, keyword_data,
  ranked_keywords, keyword_results,
  reports, other_name, other_pc

profile == <<industry, services, location, service_area_cities, brand_blocklist,
             seed_keywords, relevance_terms, business_name>>
environ == <<login, password>>
inputs  == <<response, ranked_response, kw_outcome, rk_outcome,
             url, links, broken, scrape_outcome, analyze_outcome, pdf_outcome>>
crawl   == <<base_url, to_visit, visited, scraped_pages, loaded>>
fetched == <<kw_done, kw_error, kw_request, unique_keywords, capped, keyword_data>>
looked  == <<rk_done, rk_error, rk_request, ranked_keywords>>
others  == <<other_name, other_pc>>
vars == <<profile, environ, inputs, crawl, events, pc, fetched, looked, domain, all_cities,
          keyword_results, reports, others>>

\* the names two requests can have; the first and the second have one slug
BusinessNames == <<"Ace Plumbing", "ACE-Plumbing", "Bolt Electric">>

\* the keywords the other request's report shows
OtherResults ==
  <<[keyword |-> "electrician boulder", monthly_searches |-> 70, on_old_site |-> FALSE]>>

\* the run before the fetch step, whatever its inputs
InitControl ==
  /\ brand_blocklist = <<"roto">>
  /\ seed_keywords = <<"emergency plumber denver", "water heater repair denver">>
  /\ relevance_terms = <<"plumber", "plumbing">>
  /\ business_name = BusinessNames[1]
  /\ pc = "scrape"
  /\ base_url = ""
  /\ to_visit = <<>>
  /\ visited = {}
  /\ scraped_pages = <<>>
  /\ loaded = <<>>
  /\ events = <<>>
  /\ domain = ""
  /\ kw_done = FALSE
  /\ rk_done = FALSE
  /\ kw_error = ""
  /\ rk_error = ""
  /\ kw_request = <<>>
  /\ rk_request = <<>>
  /\ all_cities = <<>>
  /\ unique_keywords = <<>>
  /\ capped = <<>>
  /\ keyword_data = <<>>
  /\ ranked_keywords = <<>>
  /\ keyword_results = <<>>
  /\ reports = <<>>

\* the request's URL and a site of one page; every step succeeds
PlainSite ==
  /\ url = "https://www.aceplumbing.com/"
  /\ links = ("https://www.aceplumbing.com" :> <<"https://www.aceplumbing.com/">>)
  /\ broken = {}
  /\ scrape_outcome = "ok" /\ analyze_outcome = "ok" /\ pdf_outcome = "ok"

InitRun ==
  /\ InitControl
  /\ PlainSite
  /\ industry \in Industries
  /\ services \in ServiceLists
  /\ location \in Locations
  /\ service_area_cities \in ServiceAreas

\* credentials set, both services answer
EnvOk ==
  /\ login = "user" /\ password = "secret"
  /\ kw_outcome = "ok" /\ rk_outcome = "ok"

\* credentials set and any outcome of the two exchanges, or a credential
\* missing
EnvAny ==
  \/ /\ login = "user" /\ password = "secret"
     /\ kw_outcome \in Outcomes /\ rk_outcome \in Outcomes
  \/ /\ login \in {"", "user"} /\ password \in {"", "secret"}
     /\ ~(login = "user" /\ password = "secret")
     /\ kw_outcome = "ok" /\ rk_outcome = "ok"

\* no other request
Alone == other_name = "" /\ other_pc = "idle"

\* another request is about to write its PDF
Together == other_name \in {BusinessNames[2], BusinessNames[3]} /\ other_pc = "report"

XrefResponses ==
  {<<>>} \cup {SubSeq(FullPool, 1, n) : n \in (PoolSize - 2)..PoolSize}

\* runs in which a fetch fails or a credential is missing, and runs next to
\* another request
InitEdge ==
  /\ response \in XrefResponses
  /\ ranked_response = <<"Denver Plumbers">>
  /\ \/ EnvAny /\ Alone
     \/ EnvOk /\ Together

Init ==
  /\ InitRun
  /\ \/ /\ response \in Responses
        /\ ranked_response = <<"Denver Plumbers">>
        /\ EnvOk /\ Alone
     \/ InitEdge

\* the await with the first task alone awaited
GatheredFirst(first_done, second_done) == first_done

\* web.py 69-72: `await asyncio.gather(...)` returns when both tasks have
\* returned
Gathered(first_done, second_done) == first_done /\ second_done

\* web.py 43-44, scraper.py 61-71: the first progress event and the start of
\* scrape_site; the browser is launched, or the launch raises
ScrapeSite ==
  /\ pc = "scrape"
  /\ IF scrape_outcome = "ok"
     THEN /\ base_url' = CachedUrl(WithScheme(url)).base
          /\ to_visit' = <<WithScheme(url)>>
          /\ events' = Append(events, "progress")
          /\ pc' = "crawl"
     ELSE /\ events' = events \o <<"progress", "error">>
          /\ pc' = "error"
          /\ UNCHANGED <<base_url, to_visit>>
  /\ UNCHANGED <<profile, environ, inputs, visited, scraped_pages, loaded, fetched,
                 looked, domain, all_cities, keyword_results, reports, others>>

\* scraper.py 82-99: one iteration of the crawl loop.  _scrape_page returns
\* (None, []) when the load fails, and the page with its links otherwise
CrawlStep ==
  /\ pc = "crawl"
  /\ CrawlGoesOn(to_visit, scraped_pages)
  /\ LET current_url == CachedUrl(Head(to_visit)).normalized
     IN  IF current_url \in visited \/ ~StartsAt(current_url, base_url, 1)
         THEN /\ to_visit' = Rest(to_visit)
              /\ UNCHANGED <<visited, scraped_pages, loaded>>
         ELSE /\ visited' = visited \cup {current_url}
              /\ loaded' = Append(loaded, current_url)
              /\ IF current_url \in broken
                 THEN /\ to_visit' = Rest(to_visit)
                      /\ UNCHANGED scraped_pages
                 ELSE /\ scraped_pages' = Append(scraped_pages, current_url)
                      /\ to_visit' = AddLinks(Rest(to_visit),
                                              IF current_url \in DOMAIN links
                                              THEN links[current_url] ELSE <<>>,
                                              visited', base_url)
  /\ UNCHANGED <<profile, environ, inputs, base_url, events, pc, fetched, looked,
                 domain, all_cities, keyword_results, reports, others>>

\* scraper.py 82, web.py 46-50: the loop ends; no page is an error, else the
\* analysis is announced
CrawlDone ==
  /\ pc = "crawl"
  /\ ~CrawlGoesOn(to_visit, scraped_pages)
  /\ IF scraped_pages = <<>>
     THEN events' = Append(events, "error") /\ pc' = "error"
     ELSE events' = Append(events, "progress") /\ pc' = "analyze"
  /\ UNCHANGED <<profile, environ, inputs, crawl, fetched, looked, domain, all_cities,
                 keyword_results, reports, others>>

\* web.py 50-63: extract_business_info returns the profile, or raises
Analyze ==
  /\ pc = "analyze"
  /\ IF analyze_outcome = "ok"
     THEN events' = Append(events, "progress") /\ pc' = "start"
     ELSE events' = Append(events, "error") /\ pc' = "error"
  /\ UNCHANGED <<profile, environ, inputs, crawl, fetched, looked, domain, all_cities,
                 keyword_results, reports, others>>

\* web.py 64-67
Start ==
  /\ pc = "start"
  /\ events' = Append(events, "progress")
  /\ domain' = CachedUrl(url).host
  /\ all_cities' = build_city_list(location, service_area_cities)
  /\ pc' = "fetch"
  /\ UNCHANGED <<profile, environ, inputs, crawl, fetched, looked, keyword_results,
                 reports, others>>

\* get_keywords, the first task of the gather: it raises, or it returns the
\* keywords of the response
GetKeywords ==
  /\ pc = "fetch"
  /\ ~kw_done /\ kw_error = ""
  /\ IF ConfigMissing(login, password)
     THEN /\ kw_error' = "ValueError"
          /\ UNCHANGED <<kw_done, kw_request, unique_keywords, capped, keyword_data>>
     ELSE /\ kw_request' = <<DiscoveryPayload(industry, location, services,
                                              service_area_cities)>>
          /\ IF kw_outcome # "ok"
             THEN /\ kw_error' = ExceptionOf(kw_outcome)
                  /\ UNCHANGED <<kw_done, unique_keywords, capped, keyword_data>>
             ELSE LET cities == build_city_list(location, service_area_cities)
                      unique == UniqueKeywords(response, industry, services, cities)
                      first  == CappedPass(unique, cities)
                  IN  /\ unique_keywords' = unique
                      /\ capped' = first
                      /\ keyword_data' = Backfill(unique, first)
                      /\ kw_done' = TRUE
                      /\ UNCHANGED kw_error
  /\ UNCHANGED <<profile, environ, inputs, crawl, events, pc, looked, domain, all_cities,
                 keyword_results, reports, others>>

\* get_ranked_keywords, the second task of the gather; the task is not
\* cancelled when the first one raises
GetRankedKeywords ==
  /\ pc = "fetch" \/ (pc = "error" /\ kw_error # "")
  /\ ~rk_done /\ rk_error = ""
  /\ IF ConfigMissing(login, password)
     THEN /\ ranked_keywords' = <<>>
          /\ rk_done' = TRUE
          /\ UNCHANGED <<rk_error, rk_request>>
     ELSE LET got == RankedFetch(rk_outcome, ranked_response)
          IN  /\ rk_request' = <<RankedPayload(location, domain)>>
              /\ ranked_keywords' = got.value
              /\ rk_error' = got.error
              /\ rk_done' = (got.error = "")
  /\ UNCHANGED <<profile, environ, inputs, crawl, events, pc, fetched, domain, all_cities,
                 keyword_results, reports, others>>

\* web.py 69-72, 109-110: the gather raises what a task raised
FetchRaised ==
  /\ pc = "fetch"
  /\ kw_error # "" \/ rk_error # ""
  /\ events' = Append(events, "error")
  /\ pc' = "error"
  /\ UNCHANGED <<profile, environ, inputs, crawl, fetched, looked, domain, all_cities,
                 keyword_results, reports, others>>

\* web.py 74-76: no keyword data
NoKeywordData ==
  /\ pc = "fetch"
  /\ Gathered(kw_done, rk_done)
  /\ keyword_data = <<>>
  /\ events' = Append(events, "error")
  /\ pc' = "error"
  /\ UNCHANGED <<profile, environ, inputs, crawl, fetched, looked, domain, all_cities,
                 keyword_results, reports, others>>

\* web.py 82-84
CheckRanking ==
  /\ pc = "fetch"
  /\ Gathered(kw_done, rk_done)
  /\ keyword_data # <<>>
  /\ keyword_results' = check_ranking_for_keywords(keyword_data, ranked_keywords, all_cities)
  /\ events' = Append(events, "progress")
  /\ pc' = "report"
  /\ UNCHANGED <<profile, environ, inputs, crawl, fetched, looked, domain, all_cities, reports,
                 others>>

\* the events of the PDF step with the handler's error event after the
\* complete event
PdfEventsBoth(outcome) == <<"progress", "complete", "error">>

\* web.py 86, 102-110: the events of the PDF step
PdfEvents(outcome) ==
  IF outcome = "ok" THEN <<"progress", "complete">> ELSE <<"progress", "error">>

\* web.py 86-110: the PDF is written and the run completes, or
\* generate_report_pdf raises
GeneratePdf ==
  /\ pc = "report"
  /\ IF pdf_outcome = "ok"
     THEN /\ reports' = WriteReport(reports, ReportFile(business_name),
                                    Pdf(business_name, keyword_results))
          /\ pc' = "done"
     ELSE /\ pc' = "error"
          /\ UNCHANGED reports
  /\ events' = events \o PdfEvents(pdf_outcome)
  /\ UNCHANGED <<profile, environ, inputs, crawl, fetched, looked, domain, all_cities,
                 keyword_results, others>>

\* web.py 86-97 in the other request
OtherGeneratePdf ==
  /\ other_pc = "report"
  /\ reports' = WriteReport(reports, ReportFile(other_name),
                            Pdf(other_name, OtherResults))
  /\ other_pc' = "done"
  /\ UNCHANGED <<profile, environ, inputs, crawl, events, pc, fetched, looked, domain, all_cities,
                 keyword_results, other_name>>

Next ==
  \/ ScrapeSite
  \/ CrawlStep
  \/ CrawlDone
  \/ Analyze
  \/ Start
  \/ GetKeywords
  \/ GetRankedKeywords
  \/ FetchRaised
  \/ NoKeywordData
  \/ CheckRanking
  \/ GeneratePdf
  \/ OtherGeneratePdf

Spec == Init /\ [][Next]_vars

\* the event loop runs every ready task: the ranked fetch ends (its request
\* has a timeout), and the handler goes on once the gather has an outcome
Fairness ==
  /\ WF_vars(GetRankedKeywords)
  /\ WF_vars(FetchRaised)
  /\ WF_vars(NoKeywordData)

\* the runs in which a fetch can fail, with the fairness
InitLive == InitRun /\ InitEdge

SpecLive == InitLive /\ [][Next]_vars /\ Fairness

(***************************************************************************)
(* The same run with the inputs of the cross-reference drawn widely: a few *)
(* discovery responses, every ranked list of up to MaxRanked pool keywords *)
(***************************************************************************)

InitXref ==
  /\ InitRun
  /\ \/ /\ response \in XrefResponses
        /\ ranked_response \in RankedLists(MaxRanked)
        /\ EnvOk /\ Alone
     \/ InitEdge

SpecXref == InitXref /\ [][Next]_vars

(***************************************************************************)
(* The same run with the inputs of the two requests drawn widely: the      *)
(* location strings, and the industries, services and service areas the    *)
(* seeds are made of; the discovery response is short                      *)
(***************************************************************************)

LocationStrings ==
  {"Denver, CO", "", "Denver,CO", "Denver, Co", "Denver, COLORADO",
   "Denver, CO 80202", "Austin TX", "Washington, DC", "Washington, DC, VA",
   "Sydney, NSW", "Milwaukee, WI", "London, KY", "Toronto, ON", "Gary, IN",
   "Auckland, New Zealand"}

\* services a profile may list
ServicePool ==
  <<"Gas Line Repair", "Drain Cleaning", "PLUMBER", "Sewer Repair", "sewer repair",
    "Repiping", "Sump Pumps", "Backflow Testing", "Slab Leaks", "Water Softeners",
    "Garbage Disposals", "Hydro Jetting", "Faucet Repair", "Shower Valves",
    "Bathroom Remodels", "Well Pumps">>

\* the longest list of services
MaxServices == 15

SeedIndustries == {"Plumbing", "Pest Control", "Dog Grooming"}
SeedServiceLists == {SubSeq(ServicePool, 1, n) : n \in {0, 1, 5, MaxServices}}
SeedAreas == {<<>>, <<"Aurora">>, <<"Aurora", "denver", "Boulder", "Aurora">>}

ShortResponses == {<<>>, SubSeq(FullPool, 1, 3)}

InitRequest ==
  /\ InitControl
  /\ PlainSite
  /\ \/ /\ location \in LocationStrings
        /\ industry = "Plumbing"
        /\ services = <<"Gas Line Repair">>
        /\ service_area_cities = <<"Aurora">>
     \/ /\ location \in {"Denver, CO", "denver"}
        /\ industry \in SeedIndustries
        /\ services \in SeedServiceLists
        /\ service_area_cities \in SeedAreas
  /\ response \in ShortResponses
  /\ ranked_response = <<"Denver Plumbers">>
  /\ login = "user" /\ password = "secret"
  /\ rk_outcome = "ok"
  /\ \/ kw_outcome = "ok" /\ Alone
     \/ kw_outcome = "timeout" /\ Together

SpecRequest == InitRequest /\ [][Next]_vars

(***************************************************************************)
(* The same run over responses that repeat a keyword with and without a    *)
(* volume, in the plural, and with its words in another order, and over    *)
(* service areas in which one city's name contains another's               *)
(***************************************************************************)

CasePool == <<
  Item("Plumber Denver", 0),
  Item("plumber Denver", 500),
  Item("plumbers denver", 500),
  Item("emergency plumber Aurora", 50),
  Item("aurora rv plumber", 250),
  Item("aurora plumber rv", 240),
  Item("plumber henderson", 300),
  Item("PLUMBER DENVER", 900)
>>

\* the pool items at the positions of D, in the pool's order
RECURSIVE Picked(_, _)
Picked(D, i) ==
  IF i > Len(CasePool) THEN <<>>
  ELSE (IF i \in D THEN <<CasePool[i]>> ELSE <<>>) \o Picked(D, i + 1)

CaseResponses == {Picked(D, 1) : D \in SUBSET (1..Len(CasePool))}

\* location and service area of a profile
CasePlaces ==
  {<<"Denver, CO", <<"Aurora">> >>,
   <<"Las Vegas, NV", <<"North Las Vegas", "Henderson">> >>,
   <<"North Las Vegas, NV", <<"Las Vegas", "Henderson">> >>}

CaseRanked == {<<"plumber north las vegas">>, <<"Plumber Aurora", "drain cleaning henderson">>}

InitCases ==
  /\ InitControl
  /\ PlainSite
  /\ industry = "Plumbing"
  /\ services = <<"Gas Line Repair">>
  /\ \E place \in CasePlaces : location = place[1] /\ service_area_cities = place[2]
  /\ login = "user" /\ password = "secret"
  /\ rk_outcome = "ok"
  /\ \/ /\ response \in CaseResponses
        /\ ranked_response \in CaseRanked
        /\ kw_outcome = "ok" /\ Alone
     \/ /\ response = <<>>
        /\ ranked_response = <<>>
        /\ kw_outcome = "timeout" /\ Together

SpecCases == InitCases /\ [][Next]_vars

(***************************************************************************)
(* The same run over sites of several pages, some of which fail to load,   *)
(* over the URLs a request can carry and over the steps that can raise     *)
(***************************************************************************)

InitStream ==
  /\ InitControl
  /\ industry = "Plumbing"
  /\ services = <<"Gas Line Repair">>
  /\ location = "Denver, CO"
  /\ service_area_cities = <<"Aurora">>
  /\ response \in ShortResponses
  /\ ranked_response = <<"Denver Plumbers">>
  /\ login = "user" /\ password = "secret"
  /\ \/ /\ url \in {"https://ace.com/", "ace.com"}
        /\ links \in Sites
        \* the pages whose load fails: none, the start page, one inner page, all
        /\ broken \in
             {{}, {"https://ace.com"}, {"https://ace.com/about"},
              {"https://ace.com", "https://ace.com/about", "https://ace.com/services",
               "https://ace.com/contact", "https://ace.com/contact?x=1",
               "https://ace.com/areas", "https://ace.com/team", "https://ace.com/reviews",
               "https://ace.com/services/drains", "https://ace.com.evil.com/x"}}
        /\ scrape_outcome = "ok" /\ analyze_outcome = "ok" /\ pdf_outcome = "ok"
        /\ kw_outcome = "ok" /\ rk_outcome = "ok"
        /\ Alone
     \/ /\ url \in Urls
        /\ links = <<>>
        /\ broken = {}
        /\ scrape_outcome \in {"ok", "raise"}
        /\ analyze_outcome \in {"ok", "raise"}
        /\ pdf_outcome \in {"ok", "raise"}
        /\ kw_outcome \in {"ok", "timeout"}
        /\ rk_outcome \in {"ok", "timeout"}
        /\ Alone \/ Together

\* the event loop runs a task that is ready: while the handler or the
\* ranked-keyword task has a step to take it takes one (the page loads and
\* the two requests have timeouts).  The last conjunct is the weak fairness
\* of GetKeywords, which is enabled exactly while the keyword fetch is
\* pending and ends that with its step.
FairStream ==
  /\ WF_vars(\/ ScrapeSite \/ CrawlStep \/ CrawlDone \/ Analyze \/ Start
             \/ GetRankedKeywords \/ FetchRaised \/ NoKeywordData
             \/ CheckRanking \/ GeneratePdf)
  /\ []<>~(pc = "fetch" /\ ~kw_done /\ kw_error = "")

SpecStream == InitStream /\ [][Next]_vars /\ FairStream

(***************************************************************************)
(* Definitions the properties share                                        *)
(***************************************************************************)

Min(a, b) == IF a < b THEN a ELSE b

\* the lowercase keywords of the response items that have a volume above 0
Candidates ==
  {CachedLower(response[i].keyword) :
     i \in {j \in 1..Len(response) :
              response[j].keyword # "" /\ response[j].search_volume > 0}}

\* the candidates that pass the filter, and their intents
Relevant == {k \in Candidates : PassesFilter(k, industry, services, all_cities)}
RelevantIntents == {CachedIntent(k, all_cities) : k \in Relevant}

\* the entries of a list whose city (the first listed city found in the
\* keyword) is c
InCity(list, c) == {i \in 1..Len(list) : CachedKwCity(list[i].keyword, all_cities) = c}
NamedCities == {Lower(all_cities[i]) : i \in 1..Len(all_cities)} \ {""}

BackfillRan == Len(capped) < Len(keyword_data)

(***************************************************************************)
(* Properties                                                              *)
(***************************************************************************)

\* C1: once get_keywords has returned, the final list has exactly
\* min(10, N) entries, N being the number of distinct intents among the
\* candidates that pass the filter.
C1_FinalSize ==
  kw_done => Len(keyword_data) = Min(TargetCount, Cardinality(RelevantIntents))

\* C1 witness: more than 10 candidates survive, the capped pass chose fewer
\* than 10, and backfill filled the list up to 10.
C1_Witness ==
  /\ kw_done
  /\ Cardinality(RelevantIntents) > TargetCount
  /\ Len(capped) < TargetCount
  /\ Len(keyword_data) = TargetCount

\* C2: no two entries of the final list have the same lowercase keyword.
C2_DistinctLowercase ==
  kw_done =>
    \A i, j \in 1..Len(keyword_data) :
      i # j => CachedLower(keyword_data[i].keyword) # CachedLower(keyword_data[j].keyword)

\* C2 witness: the response repeats a keyword in two casings, both with a
\* volume, and backfill appended entries to the final list.
C2_Witness ==
  /\ kw_done
  /\ BackfillRan
  /\ \E i, j \in 1..Len(response) :
       /\ i # j
       /\ response[i].keyword # response[j].keyword
       /\ response[i].search_volume > 0 /\ response[j].search_volume > 0
       /\ CachedLower(response[i].keyword) = CachedLower(response[j].keyword)
       /\ \E e \in 1..Len(keyword_data) :
            keyword_data[e].keyword = CachedLower(response[i].keyword)

\* C3: no two entries of the final list have the same dedup-mode normalized
\* intent, backfilled entries included.
C3_DistinctIntent ==
  kw_done =>
    \A i, j \in 1..Len(keyword_data) :
      i # j => CachedIntent(keyword_data[i].keyword, all_cities)
               # CachedIntent(keyword_data[j].keyword, all_cities)

\* C3 witness: two different candidates that pass the filter have the same
\* intent, one of them is in the final list, and backfill appended entries.
C3_Witness ==
  /\ kw_done
  /\ BackfillRan
  /\ \E k1, k2 \in Relevant :
       /\ k1 # k2
       /\ CachedIntent(k1, all_cities) = CachedIntent(k2, all_cities)
       /\ \E e \in 1..Len(keyword_data) : keyword_data[e].keyword = k1

\* C4 as claimed: whenever at least 10 relevant, intent-deduplicated
\* candidates exist, no (named) city has more than 3 entries in the final list.
C4_CapWhenTenExist ==
  (kw_done /\ Cardinality(RelevantIntents) >= TargetCount) =>
    \A c \in NamedCities : Cardinality(InCity(keyword_data, c)) <= max_per_city

\* C4 as amended: no named city has more than 3 entries among those the
\* capped pass chose, the final list starts with them, and so a city has more
\* than 3 entries in the final list only when the capped pass chose fewer
\* than 10 and backfill appended to it.
C4_CapOnCappedPass ==
  kw_done =>
    /\ \A c \in NamedCities : Cardinality(InCity(capped, c)) <= max_per_city
    /\ Len(capped) <= Len(keyword_data)
    /\ SubSeq(keyword_data, 1, Len(capped)) = capped
    /\ (\E c \in NamedCities : Cardinality(InCity(keyword_data, c)) > max_per_city)
         => (Len(capped) < TargetCount /\ BackfillRan)

\* C4 witness: at least 10 candidates exist, the capped pass skipped one for
\* its city and ended below 10, and backfill gave that city a fourth entry.
C4_Witness ==
  /\ kw_done
  /\ Cardinality(RelevantIntents) >= TargetCount
  /\ Len(capped) < TargetCount
  /\ \E c \in NamedCities :
       /\ Cardinality(InCity(capped, c)) = max_per_city
       /\ Cardinality(InCity(keyword_data, c)) > max_per_city

\* C5: no entry of the final list contains, in lowercase, an entry of the
\* profile's brand_blocklist or of the fixed BRAND_BLOCKLIST.
C5_NoBlocklisted ==
  kw_done =>
    \A e \in 1..Len(keyword_data) :
      \A b \in ToSet(brand_blocklist) \cup ToSet(BRAND_BLOCKLIST) :
        ~Contains(CachedLower(keyword_data[e].keyword), b)

\* C6: every entry of the final list contains a non-empty configured city
\* name as a case-insensitive substring.
C6_EveryEntryHasCity ==
  kw_done =>
    \A e \in 1..Len(keyword_data) :
      \E c \in NamedCities : Contains(CachedLower(keyword_data[e].keyword), c)

\* C7: normalizing an already normalized keyword with the same city list
\* returns it unchanged, for every keyword of the final list.
C7_Idempotent ==
  kw_done =>
    \A e \in 1..Len(keyword_data) :
      LET key == CachedIntent(keyword_data[e].keyword, all_cities)
      IN  CachedIntent(key, all_cities) = key

\* C8: after the cross-reference there is one result per final keyword, and
\* its on_old_site is true exactly when the keyword's lowercase form is the
\* lowercase form of a ranked keyword or its normalized intent is the
\* normalized intent of a ranked keyword.
C8_FlagIffMember ==
  pc = "done" =>
    /\ Len(keyword_results) = Len(keyword_data)
    /\ \A i \in 1..Len(keyword_data) :
         keyword_results[i].on_old_site =
           \/ \E r \in ToSet(ranked_keywords) :
                CachedLower(keyword_data[i].keyword) = CachedLower(r)
           \/ \E r \in ToSet(ranked_keywords) :
                CachedIntent(keyword_data[i].keyword, all_cities)
                  = CachedIntent(r, all_cities)

\* C8 witness: one keyword is flagged through its intent alone (no ranked
\* keyword equals it), and another keyword is not flagged.
C8_Witness ==
  /\ pc = "done"
  /\ \E i, j \in 1..Len(keyword_results) :
       /\ keyword_results[i].on_old_site
       /\ \A r \in ToSet(ranked_keywords) :
            CachedLower(r) # CachedLower(keyword_results[i].keyword)
       /\ ~keyword_results[j].on_old_site

\* the lists of at most n elements made of the elements of the set S
RECURSIVE ListsOver(_, _)
ListsOver(S, n) ==
  IF n = 0 THEN {<<>>}
  ELSE LET shorter == ListsOver(S, n - 1)
       IN  shorter \cup {Append(r, x) : r \in shorter, x \in S}

\* the permutations of a list, and the lists that repeat one of its elements
Rearrangements(list) ==
  {r \in ListsOver(ToSet(list), Len(list) + 1) :
     /\ ToSet(r) = ToSet(list)
     /\ Len(r) >= Len(list)}

\* C9: every permutation of the ranked list, and every list that repeats
\* elements of it, gives each final keyword the same on_old_site flag.
C9_OrderIndependent ==
  pc = "done" =>
    \A r \in Rearrangements(ranked_keywords) :
      check_ranking_for_keywords(keyword_data, r, all_cities) = keyword_results

\* C9 witness: the ranked list has two different keywords, one of which
\* flags a final keyword the other does not flag.
C9_Witness ==
  /\ pc = "done"
  /\ Len(ranked_keywords) = 2
  /\ ranked_keywords[1] # ranked_keywords[2]
  /\ \E i \in 1..Len(keyword_results) :
       /\ keyword_results[i].on_old_site
       /\ ~check_ranking_for_keywords(keyword_data, <<ranked_keywords[1]>>,
                                      all_cities)[i].on_old_site

C11_EmptyRankedAllAbsent ==
  (pc = "done" /\ ranked_keywords = <<>>) =>
    /\ Len(keyword_results) = Len(keyword_data)
    /\ \A i \in 1..Len(keyword_data) :
         keyword_results[i] =
           [keyword          |-> keyword_data[i].keyword,
            monthly_searches |-> keyword_data[i].monthly_searches,
            on_old_site      |-> FALSE]

\* C11 witness: the cross-reference ran on several final keywords with an
\* empty ranked list.
C11_Witness ==
  /\ pc = "done"
  /\ ranked_keywords = <<>>
  /\ Len(keyword_data) >= 2
  /\ Len(keyword_results) = Len(keyword_data)

\* a credential of the services is absent
CredentialAbsent == login = "" \/ password = ""

\* the ranked-keyword fetch met a failure: no credentials, or an exchange
\* that timed out, got an error status or an unparseable or malformed payload
RankedFailed == CredentialAbsent \/ rk_outcome # "ok"

\* C12: get_ranked_keywords never raises; after a failure of any of these
\* kinds it has returned the empty list, and a run ends in an error only
\* because of the discovery fetch, never because of the ranked one.
C12_RankedNeverRaises ==
  /\ rk_error = ""
  /\ (rk_done /\ RankedFailed) => ranked_keywords = <<>>
  /\ pc = "error" => (kw_error # "" \/ (kw_done /\ rk_done /\ keyword_data = <<>>))

\* C12 witness: the ranked exchange returned a malformed payload, and the
\* run went on through the cross-reference to its end.
C12_Witness ==
  /\ rk_outcome = "bad_payload"
  /\ ~CredentialAbsent
  /\ rk_done
  /\ pc = "done"
  /\ keyword_results # <<>>

\* C13: in a run without the login or the password, get_keywords raises the
\* configuration error and no request is ever sent to the discovery service.
C13_NoRequestWithoutCredentials ==
  CredentialAbsent =>
    /\ kw_request = <<>>
    /\ ~kw_done
    /\ kw_error \in {"", "ValueError"}
    /\ pc = "error" => kw_error = "ValueError"

\* C13 witness: the password alone is absent, get_keywords has raised and
\* the run has ended in the error, with no request sent.
C13_Witness ==
  /\ login = "user" /\ password = ""
  /\ kw_error = "ValueError"
  /\ kw_request = <<>>
  /\ pc = "error"

\* the discovery fetch raised, or it returned no keyword
DiscoveryFailed == kw_error # "" \/ (kw_done /\ keyword_data = <<>>)

\* the cross-reference has run, the PDF of this run has been written
XrefRan == keyword_results # <<>> \/ pc \in {"report", "done"}
PdfWritten == \E f \in DOMAIN reports : reports[f].business_name = business_name

\* C14: the cross-reference runs only after both fetches have returned and
\* discovery has yielded a keyword; when discovery raises or yields no
\* keyword, neither the cross-reference nor the PDF step ever runs, and the
\* run ends in an error.
C14_XrefAfterBothFetches ==
  /\ [](XrefRan => (kw_done /\ rk_done /\ keyword_data # <<>>))
  /\ [](PdfWritten => XrefRan)
  /\ [](DiscoveryFailed => (~XrefRan /\ ~PdfWritten))
  /\ (DiscoveryFailed ~> pc = "error")

\* C14 witness: discovery raised after the ranked fetch had returned its
\* keywords, and the run ended in the error without a cross-reference.
C14_Witness ==
  /\ kw_error = "TimeoutException"
  /\ rk_done /\ ranked_keywords # <<>>
  /\ pc = "error"
  /\ ~XrefRan /\ ~PdfWritten

\* C15: two requests that run at the same time share no resource; so the
\* report file a finished run names in its complete event holds the report
\* of that run, whatever the other request did.
C15_ReportIsOwn ==
  pc = "done" =>
    /\ ReportFile(business_name) \in DOMAIN reports
    /\ reports[ReportFile(business_name)] = Pdf(business_name, keyword_results)

\* the country labels of _detect_location
Countries == {intl_mappings[j][2] : j \in 1..Len(intl_mappings)} \cup {"United States"}

\* C16: the region sent to the ranked-keyword lookup is a country, never a
\* state-qualified value such as "Colorado,United States".
C16_RankedRegionIsCountry ==
  \A j \in 1..Len(rk_request) : rk_request[j].location_name \in Countries

\* the countries of the keys of intl_mappings the lowercased location contains
IntlFound(loc) ==
  {intl_mappings[j][2] :
     j \in {h \in 1..Len(intl_mappings) : Contains(Lower(loc), intl_mappings[h][1])}}

\* the states named by a two-letter uppercase token that follows a comma
StatesFound(loc) ==
  {StateName(AbbrevAt(loc, j), 1) : j \in 1..Len(loc)} \ {""}

\* the precedence of the location resolution
Resolved(loc, region) ==
  IF IntlFound(loc) # {} THEN region \in IntlFound(loc)
  ELSE IF StatesFound(loc) # {}
       THEN region \in {st \o ",United States" : st \in StatesFound(loc)}
  ELSE region = "United States"

\* C17: the region of the discovery request follows the precedence: the
\* country of a non-US key the location contains; else the state of a
\* comma-separated two-letter uppercase token, as "{StateName},United
\* States"; else "United States".
C17_Precedence ==
  \A j \in 1..Len(kw_request) : Resolved(location, kw_request[j].location_name)

\* the positions of the seed candidates that are first occurrences,
\* case-insensitively
FirstSeen(paired) ==
  {j \in 1..Len(paired) : \A h \in 1..(j - 1) : Lower(paired[h]) # Lower(paired[j])}

\* C18: the seeds have at most 20 entries, no two equal case-insensitively,
\* and they are the first occurrences among the generated keywords, in their
\* order.
C18_SeedsBoundedDistinctOrdered ==
  \A j \in 1..Len(kw_request) :
    LET seeds  == kw_request[j].keywords
        paired == SeedCandidates(industry, location, services, service_area_cities)
        firsts == FirstSeen(paired)
    IN  /\ Len(seeds) = Min(MaxSeeds, Cardinality(firsts))
        /\ \A g, h \in 1..Len(seeds) : g # h => Lower(seeds[g]) # Lower(seeds[h])
        /\ \A g \in 1..Len(seeds) :
             \E h \in firsts :
               /\ Cardinality({z \in firsts : z <= h}) = g
               /\ seeds[g] = paired[h]

\* C18 witness: the generated keywords repeat one, more than 20 of them
\* differ, and the request carries 20 seeds.
C18_Witness ==
  /\ kw_request # <<>>
  /\ LET paired == SeedCandidates(industry, location, services, service_area_cities)
     IN  /\ Cardinality(FirstSeen(paired)) < Len(paired)
         /\ Cardinality(FirstSeen(paired)) > MaxSeeds
  /\ Len(kw_request[1].keywords) = MaxSeeds

\* C19: when the profile supplies seed keywords, the seeds of the discovery
\* request are the first (up to 20) of them verbatim, with no constructed
\* seed added.
C19_ProfileSeedsVerbatim ==
  seed_keywords # <<>> =>
    \A j \in 1..Len(kw_request) : kw_request[j].keywords = FirstSeeds(seed_keywords)

\* C20: when the profile supplies relevance terms, every keyword of the
\* final list contains one of them, case-insensitively.
C20_RelevanceTerms ==
  (kw_done /\ relevance_terms # <<>>) =>
    \A j \in 1..Len(keyword_data) :
      \E h \in 1..Len(relevance_terms) :
        Contains(Lower(keyword_data[j].keyword), Lower(relevance_terms[h]))

\* the scenario's candidates
ScenarioResponse ==
  <<Item("plumber Denver", 500), Item("plumbers denver", 500),
    Item("emergency plumber Aurora", 50)>>

\* C22: with the candidates ("plumber Denver", 500), ("plumbers denver",
\* 500), ("emergency plumber Aurora", 50), the cities Denver and Aurora and a
\* plumbing profile, the final list is "plumber denver" (500), "emergency
\* plumber aurora" (50).
C22_Scenario ==
  (kw_done /\ response = ScenarioResponse /\ all_cities = <<"Denver", "Aurora">>) =>
    keyword_data = <<Pair("plumber denver", 500), Pair("emergency plumber aurora", 50)>>

\* the positions of the response at which the lowercase keyword is kw
Occurrences(kw) ==
  {i \in 1..Len(response) : response[i].keyword # "" /\ Lower(response[i].keyword) = kw}

\* those of them that have a volume above 0
Measured(kw) == {i \in Occurrences(kw) : response[i].search_volume > 0}

\* the least of a non-empty set of positions
First(S) == CHOOSE i \in S : \A j \in S : i <= j

\* C23 as stated: every entry of the final list is the lowercase form of a
\* candidate with a volume above 0 and carries the volume of the first
\* occurrence of its lowercase string in the response.
C23_FirstOccurrenceVolume ==
  kw_done =>
    \A j \in 1..Len(keyword_data) :
      /\ Measured(keyword_data[j].keyword) # {}
      /\ keyword_data[j].monthly_searches =
           response[First(Occurrences(keyword_data[j].keyword))].search_volume

\* C23: every entry of the final list is the lowercase form of a candidate
\* with a volume above 0 and carries the volume of the first occurrence of
\* its lowercase string among the candidates with a volume above 0.
C23_FirstMeasuredVolume ==
  kw_done =>
    \A j \in 1..Len(keyword_data) :
      /\ keyword_data[j].keyword # ""
      /\ Measured(keyword_data[j].keyword) # {}
      /\ keyword_data[j].monthly_searches =
           response[First(Measured(keyword_data[j].keyword))].search_volume

\* C23 witness: a keyword of the final list occurs in the response first
\* without a volume, then with one, then with a higher one in another casing.
C23_Witness ==
  /\ kw_done
  /\ \E j \in 1..Len(keyword_data) :
       LET kw == keyword_data[j].keyword
       IN  /\ First(Occurrences(kw)) \notin Measured(kw)
           /\ \E i \in Measured(kw) :
                response[i].search_volume > response[First(Measured(kw))].search_volume

\* the candidates that reach the intent dedup, in their order
Filtered ==
  FilterCandidates(CaseDedup(ParseItems(response)), industry, services, all_cities)

\* the intent keys of a list of candidates
IntentsOf(list, cities) ==
  [h \in 1..Len(list) |-> CachedIntent(list[h].keyword, cities)]

\* C24: for each intent the intent dedup keeps the filtered candidate with
\* the highest volume, and of several with that volume the first.
C24_IntentKeepsHighestFirst ==
  kw_done =>
    LET list == Filtered
        keys == IntentsOf(list, all_cities)
    IN  /\ \A j \in 1..Len(unique_keywords) :
             \E g \in 1..Len(list) :
               /\ list[g] = unique_keywords[j]
               /\ \A h \in 1..Len(list) :
                    keys[h] = keys[g]
                    => \/ list[h].monthly_searches < list[g].monthly_searches
                       \/ /\ list[h].monthly_searches = list[g].monthly_searches
                          /\ g <= h
        /\ \A h \in 1..Len(list) :
             \E j \in 1..Len(unique_keywords) :
               CachedIntent(unique_keywords[j].keyword, all_cities) = keys[h]

\* C24 witness: two filtered candidates share an intent and its highest
\* volume, and the first of them is the one kept.
C24_Witness ==
  /\ kw_done
  /\ LET list == Filtered
         keys == IntentsOf(list, all_cities)
     IN  \E g, h \in 1..Len(list) :
           /\ g < h
           /\ keys[h] = keys[g]
           /\ list[h].monthly_searches = list[g].monthly_searches
           /\ \E j \in 1..Len(unique_keywords) : unique_keywords[j] = list[g]

\* volumes do not increase from position a to position b of a list
NonIncreasing(list, a, b) ==
  \A i, j \in a..b : i < j => list[i].monthly_searches >= list[j].monthly_searches

\* C25: the final list is the entries of the capped pass followed by the
\* entries backfill appended, and within each of the two parts the volumes
\* do not increase.
C25_CappedThenBackfill ==
  kw_done =>
    /\ Len(capped) <= Len(keyword_data)
    /\ SubSeq(keyword_data, 1, Len(capped)) = capped
    /\ NonIncreasing(keyword_data, 1, Len(capped))
    /\ NonIncreasing(keyword_data, Len(capped) + 1, Len(keyword_data))

\* C25 witness: backfill appended an entry whose volume is above that of an
\* entry of the capped pass.
C25_Witness ==
  /\ kw_done
  /\ \E i \in 1..Len(capped) :
       \E j \in (Len(capped) + 1)..Len(keyword_data) :
         keyword_data[j].monthly_searches > keyword_data[i].monthly_searches

\* the words of the known cities' names
CityWords(cities) == UNION {ToSet(Split(Lower(cities[i]))) : i \in 1..Len(cities)}

\* the words of a keyword that are no word of a city's name, sorted
RECURSIVE Except(_, _)
Except(words, S) ==
  IF words = <<>> THEN <<>>
  ELSE (IF Head(words) \in S THEN <<>> ELSE <<Head(words)>>) \o Except(Tail(words), S)

NonCityWords(kw, cities) == SortWords(Except(Split(Lower(kw)), CityWords(cities)))

\* C26: two keywords with the same non-city words, in any order and with the
\* city at any position, have the same intent key.
C26_WordOrderIndependent ==
  all_cities # <<>> =>
    \A i, j \in 1..Len(response) :
      NonCityWords(response[i].keyword, all_cities)
        = NonCityWords(response[j].keyword, all_cities)
      => _normalize_service_intent(response[i].keyword, all_cities)
           = _normalize_service_intent(response[j].keyword, all_cities)

\* kw is a phrase, a space and the lowercase name of the city
EndsWithCity(kw, city) ==
  /\ city # ""
  /\ Len(kw) > Len(city) + 1
  /\ SubSeq(kw, Len(kw) - Len(city), Len(kw)) = " " \o Lower(city)

\* the phrase before the city
PhraseBefore(kw, city) == SubSeq(kw, 1, Len(kw) - Len(city) - 1)

NoCityIn(kw, cities) ==
  \A i \in 1..Len(cities) : cities[i] = "" \/ ~Contains(kw, Lower(cities[i]))

\* C27: a final keyword "s c1" is flagged on_old_site whenever the ranked
\* list holds "s c2", for known cities c1 and c2 and a phrase s that contains
\* no known city.
C27_CityInsensitive ==
  \A j \in 1..Len(keyword_results) :
    \A i \in 1..Len(ranked_keywords) :
      \A g, h \in 1..Len(all_cities) :
        (/\ EndsWithCity(keyword_results[j].keyword, all_cities[g])
         /\ EndsWithCity(Lower(ranked_keywords[i]), all_cities[h])
         /\ PhraseBefore(keyword_results[j].keyword, all_cities[g])
              = PhraseBefore(Lower(ranked_keywords[i]), all_cities[h])
         /\ NoCityIn(PhraseBefore(keyword_results[j].keyword, all_cities[g]), all_cities))
        => keyword_results[j].on_old_site

\* a domain with no scheme, no leading "www." and no path or query
Bare(u) ==
  /\ ~StartsAt(u, "http://", 1) /\ ~StartsAt(u, "https://", 1)
  /\ ~StartsAt(u, "www.", 1)
  /\ ~Contains(u, "/") /\ ~Contains(u, "?")

\* C21: the target of the ranked-keyword request is a bare domain, whatever
\* the URL the run was given.
C21_TargetIsBare ==
  \A j \in 1..Len(rk_request) : Bare(rk_request[j].target)

Terminal(e) == e \in {"error", "complete"}

\* the run has emitted its terminal event
Ended == events # <<>> /\ Terminal(events[Len(events)])

\* C28: the stream is progress events followed by exactly one terminal
\* event: a terminal event is the last one at all times, the events emitted
\* are never changed, nothing is emitted after the terminal event, and every
\* run emits one.
C28_OneTerminalEvent ==
  /\ [](\A j \in 1..Len(events) :
          IF j < Len(events) THEN events[j] = "progress"
          ELSE events[j] = "progress" \/ Terminal(events[j]))
  /\ [][Len(events') >= Len(events) /\ SubSeq(events', 1, Len(events)) = events]_vars
  /\ [][Ended => events' = events]_vars
  /\ <>Ended

\* C28 witness: the PDF step raised after five progress events and the
\* stream ended with the error event.
C28_Witness ==
  /\ pdf_outcome = "raise"
  /\ pc = "error"
  /\ Len(events) = 7
  /\ events[Len(events)] = "error"
  /\ keyword_results # <<>>

\* C29: in the crawl at most max_pages pages are scraped, no URL is loaded
\* twice, and every URL loaded starts with the base URL of the start page.
C29_CrawlBounds ==
  /\ Len(scraped_pages) <= max_pages
  /\ \A i, j \in 1..Len(loaded) : i # j => loaded[i] # loaded[j]
  /\ \A i \in 1..Len(loaded) :
       /\ StartsAt(loaded[i], BaseUrl(WithScheme(url)), 1)
       /\ _normalize_url(loaded[i]) = loaded[i]

\* C29 witness: the crawl stopped at max_pages pages with URLs left in the
\* queue, after links to pages already loaded were found.
C29_Witness ==
  /\ pc = "analyze"
  /\ Len(scraped_pages) = max_pages
  /\ to_visit # <<>>
  /\ \E i \in 1..Len(loaded) :
       loaded[i] \in DOMAIN links /\ ToSet(links[loaded[i]]) \cap ToSet(loaded) # {}

\* C30: the crawl loop ends, and it ends only with the queue empty or
\* max_pages pages scraped; an iteration that scrapes no page (the entry is
\* skipped or its load fails) takes one entry off the queue and adds none.
C30_CrawlTerminates ==
  /\ (pc = "crawl") ~> (pc # "crawl")
  /\ [][(pc = "crawl" /\ pc' # "crawl")
          => (to_visit = <<>> \/ Len(scraped_pages) >= max_pages)]_vars
  /\ [][(pc = "crawl" /\ pc' = "crawl" /\ scraped_pages' = scraped_pages
            /\ <<to_visit, visited>>' # <<to_visit, visited>>)
          => to_visit' = Tail(to_visit)]_vars

\* C30 witness: every load failed, the queue ran empty, and the crawl ended
\* with no page.
C30_Witness ==
  /\ pc = "error"
  /\ loaded # <<>>
  /\ ToSet(loaded) \subseteq broken
  /\ scraped_pages = <<>>
  /\ to_visit = <<>>

=============================================================================
